---- MODULE Spec2Model ----
(***************************************************************************)
(* Habit Streak & Statistics Engine of the Habit-Tracker backend.          *)
(*                                                                         *)
(* The model holds the habit_logs table of one user's habits, the habit    *)
(* rows with their schedules, and the response of the last request.  The   *)
(* statistics are computed by StreakService (user.model.js) from the rows  *)
(* that HabitLogModel.findByHabitAndDateRange returns.                     *)
(*                                                                         *)
(* Calendar dates are day numbers: day 1 is a Monday, so Date.getDay() of  *)
(* day d is d % 7 (day 7 is a Sunday, getDay() = 0); log_date strings are  *)
(* parsed as UTC midnights, so two dates differ by whole days.  Real-valued*)
(* results are kept as exact fractions.                                    *)
(***************************************************************************)
EXTENDS Integers, Sequences, FiniteSets, TLC

VARIABLES
    habits,      \* habits table: habit id -> [frequency, target_days]
    habit_logs,  \* habit_logs table: set of rows [habit_id, log_date, completed]
    response,    \* what the last request returned to its caller
    pending      \* the getUserStats request in flight: the habits it has read

vars == <<habits, habit_logs, response, pending>>

\* ---------------------------------------------------------------- bounds

MaxDay == 8          \* dates are 1..MaxDay; Today is MaxDay
MaxLogs == 4         \* rows the habit_logs table may hold
MaxHabits == 2       \* habits of the user in SpecUser
MaxUserDay == 2      \* dates logged in SpecUser are 1..MaxUserDay
MaxUserLogs == 3     \* rows the habit_logs table may hold in SpecUser

Today == MaxDay
Days == 1..MaxDay

\* ------------------------------------------------------------- constants

NoDate == 0                      \* lastCompletedDate = null
DefaultTimeframeDays == 30       \* calculateHabitStats(.., timeframeDays = 30)
NoTargetDays == {0}              \* target_days = NULL (never a weekday set)

DailySchedule == [frequency |-> "daily", target_days |-> NoTargetDays]
WeeklySchedule(T) == [frequency |-> "weekly", target_days |-> T]

\* The schedules a habit is created with (validateHabitData: daily, or weekly
\* with a non-empty set of days in 1..7).
Schedules ==
    { DailySchedule, WeeklySchedule({1}), WeeklySchedule({1, 3, 5}),
      WeeklySchedule({7}) }

\* --------------------------------------------------------------- helpers

Max(a, b) == IF a >= b THEN a ELSE b
Min(a, b) == IF a <= b THEN a ELSE b

\* Array.prototype.filter(log => log.completed).length
CountCompleted(logs) ==
    Cardinality({i \in 1..Len(logs) : logs[i].completed})

\* Insert one row into a list sorted by log_date descending (stable).
RECURSIVE InsertDesc(_, _)
InsertDesc(sorted, log) ==
    IF sorted = <<>> THEN <<log>>
    ELSE IF Head(sorted).log_date >= log.log_date
         THEN <<Head(sorted)>> \o InsertDesc(Tail(sorted), log)
         ELSE <<log>> \o sorted

\* The list as it is given, not sorted.
NoSort(logs) == logs

\* [...logs].sort((a, b) => new Date(b.log_date) - new Date(a.log_date))
RECURSIVE SortDesc(_)
SortDesc(logs) ==
    IF logs = <<>> THEN <<>>
    ELSE InsertDesc(SortDesc(SubSeq(logs, 1, Len(logs) - 1)), logs[Len(logs)])

Reverse(s) == [i \in 1..Len(s) |-> s[Len(s) + 1 - i]]

\* [...logs].sort((a, b) => new Date(a.log_date) - new Date(b.log_date))
SortAsc(logs) == Reverse(SortDesc(Reverse(logs)))

\* The difference left in hours: the division by 1000*60*60 only.
DayDiffInHours(prevDate, logDate) == (prevDate - logDate) * 24

\* The operands exchanged: logDate - prevDate.
DayDiffSwapped(prevDate, logDate) == logDate - prevDate

\* Math.floor((prevDate.getTime() - logDate.getTime()) / (1000*60*60*24))
DayDiff(prevDate, logDate) == prevDate - logDate

\* ------------------------------------------- StreakService.calculateStreaks

StreakStart ==
    [currentStreak |-> 0, tempStreak |-> 0, longestStreak |-> 0,
     lastCompletedDate |-> NoDate, prevDate |-> NoDate]

\* One completed entry whose streak continues: tempStreak++ and the maximum.
TrackLongest(st) ==
    [st EXCEPT !.tempStreak = st.tempStreak + 1,
               !.longestStreak = Max(st.longestStreak, st.tempStreak + 1)]

\* The for loop over sortedLogs from entry i on; a break returns st as it is.
RECURSIVE StreakLoop(_, _, _)
StreakLoop(sortedLogs, i, st) ==
    IF i > Len(sortedLogs) THEN st
    ELSE
      LET log == sortedLogs[i]
          next(s) == StreakLoop(sortedLogs, i + 1,
                                [s EXCEPT !.prevDate = log.log_date])
      IN  IF log.completed
          THEN IF st.currentStreak = 0
               THEN next(TrackLongest(
                        [st EXCEPT !.currentStreak = 1,
                                   !.lastCompletedDate = log.log_date]))
               ELSE IF st.prevDate # NoDate
               THEN IF DayDiff(st.prevDate, log.log_date) = 1
                    THEN next(TrackLongest(
                             [st EXCEPT !.currentStreak = st.currentStreak + 1]))
                    ELSE st
               ELSE next(TrackLongest(st))
          ELSE next([st EXCEPT !.tempStreak = 0])

\* The list sorted oldest first instead of newest first.
calculateStreaksOldestFirst(logs) ==
    IF Len(logs) = 0
    THEN [currentStreak |-> 0, longestStreak |-> 0, lastCompletedDate |-> NoDate]
    ELSE LET st == StreakLoop(SortAsc(logs), 1, StreakStart)
         IN  [currentStreak |-> st.currentStreak,
              longestStreak |-> st.longestStreak,
              lastCompletedDate |-> st.lastCompletedDate]

calculateStreaks(logs) ==
    IF Len(logs) = 0
    THEN [currentStreak |-> 0, longestStreak |-> 0, lastCompletedDate |-> NoDate]
    ELSE LET st == StreakLoop(SortDesc(logs), 1, StreakStart)
         IN  [currentStreak |-> st.currentStreak,
              longestStreak |-> st.longestStreak,
              lastCompletedDate |-> st.lastCompletedDate]

\* -------------------------------------------- HabitLogModel.getHabitStats

\* The "current streak" loop of HabitLog.ts: it stops at the first entry that
\* is not completed; the previous entry is sortedLogs[indexOf(log) - 1].
RECURSIVE LogModelCurrentLoop(_, _, _)
LogModelCurrentLoop(sortedLogs, i, currentStreak) ==
    IF i > Len(sortedLogs) THEN currentStreak
    ELSE IF sortedLogs[i].completed
         THEN IF currentStreak = 0
              THEN LogModelCurrentLoop(sortedLogs, i + 1, 1)
              ELSE IF DayDiff(sortedLogs[i - 1].log_date,
                              sortedLogs[i].log_date) = 1
                   THEN LogModelCurrentLoop(sortedLogs, i + 1, currentStreak + 1)
                   ELSE currentStreak
         ELSE currentStreak

\* The "longest streak" loop of HabitLog.ts over chronologicalLogs.
RECURSIVE LogModelLongestLoop(_, _, _)
LogModelLongestLoop(chronologicalLogs, i, st) ==
    IF i > Len(chronologicalLogs) THEN st
    ELSE IF chronologicalLogs[i].completed
         THEN LogModelLongestLoop(chronologicalLogs, i + 1,
                  [tempStreak |-> st.tempStreak + 1,
                   longestStreak |-> Max(st.longestStreak, st.tempStreak + 1),
                   lastCompleted |-> chronologicalLogs[i].log_date])
         ELSE LogModelLongestLoop(chronologicalLogs, i + 1,
                  [st EXCEPT !.tempStreak = 0])

getHabitStatsStreaks(logs) ==
    LET st == LogModelLongestLoop(SortAsc(logs), 1,
                  [tempStreak |-> 0, longestStreak |-> 0,
                   lastCompleted |-> NoDate])
    IN  [currentStreak |-> LogModelCurrentLoop(SortDesc(logs), 1, 0),
         longestStreak |-> st.longestStreak,
         lastCompletedDate |-> st.lastCompleted]

\* ------------------------------------- StreakService: consistency score

\* new Date(log.log_date).getDay(): 0 = Sunday .. 6 = Saturday
getDay(date) == date % 7

\* day === 0 ? 7 : day
NormalizeWeekday(day) == IF day = 0 THEN 7 ELSE day

calculateExpectedDays(logs, targetDays) ==
    LET uniqueDays == {getDay(logs[i].log_date) : i \in 1..Len(logs)}
    IN  Cardinality({day \in uniqueDays : NormalizeWeekday(day) \in targetDays})

\* A JavaScript number that is a fraction num/den (den > 0) or NaN.
Frac(n, d) == [nan |-> FALSE, num |-> n, den |-> d]
NaN == [nan |-> TRUE, num |-> 0, den |-> 1]

\* A schedule score in which a daily habit earns its 20 points in proportion
\* to the completed entries.
scheduleScoreProportional(logs, frequency, targetDays) ==
    LET completedDays == CountCompleted(logs)
    IN  IF frequency = "weekly" /\ targetDays # NoTargetDays
        THEN LET expectedDays == calculateExpectedDays(logs, targetDays)
             IN  IF expectedDays = 0
                 THEN IF completedDays = 0 THEN NaN ELSE Frac(20, 1)
                 ELSE IF completedDays >= expectedDays
                      THEN Frac(20, 1)
                      ELSE Frac(completedDays * 20, expectedDays)
        ELSE IF frequency = "daily"
             THEN Frac(completedDays * 20, Max(Len(logs), 1))
             ELSE Frac(0, 1)

\* The schedule adherence score (20% weight) of calculateConsistencyScore.
\* completedDays / 0 is Infinity for completedDays > 0 (Math.min caps it at
\* 20) and NaN for completedDays = 0 (Math.min(NaN, 20) is NaN).
scheduleScore(logs, frequency, targetDays) ==
    LET completedDays == CountCompleted(logs)
    IN  IF frequency = "weekly" /\ targetDays # NoTargetDays
        THEN LET expectedDays == calculateExpectedDays(logs, targetDays)
             IN  IF expectedDays = 0
                 THEN IF completedDays = 0 THEN NaN ELSE Frac(20, 1)
                 ELSE IF completedDays >= expectedDays
                      THEN Frac(20, 1)
                      ELSE Frac(completedDays * 20, expectedDays)
        ELSE IF frequency = "daily"
             THEN IF completedDays > 0 THEN Frac(20, 1) ELSE Frac(0, 1)
             ELSE Frac(0, 1)

\* Math.floor of the fraction n/d >= 0.
RoundDown(n, d) == n \div d

\* Math.round of the fraction n/d >= 0: the nearest integer, halves up.
RoundHalfUp(n, d) == (2 * n + d) \div (2 * d)

\* calculateConsistencyScore for a list that is not empty: an integer, or NaN
\* when the schedule score is NaN.
consistencyScoreOf(logs, frequency, targetDays) ==
      LET totalDays == Len(logs)
          completedDays == CountCompleted(logs)
          streaks == calculateStreaks(logs)
          longest == Max(streaks.longestStreak, 1)
          \* Math.min((currentStreak / longest) * 30, 30) = streakNum / longest
          streakNum == Min(streaks.currentStreak * 30, 30 * longest)
          schedule == scheduleScore(logs, frequency, targetDays)
      IN  IF schedule.nan THEN NaN
          ELSE Frac(RoundHalfUp(
                      50 * completedDays * longest * schedule.den
                        + streakNum * totalDays * schedule.den
                        + schedule.num * totalDays * longest,
                      totalDays * longest * schedule.den), 1)

\* Without the guard for the empty list: (0 / 0) * 50 is NaN.
calculateConsistencyScoreUnguarded(logs, frequency, targetDays) ==
    IF Len(logs) = 0 THEN NaN
    ELSE consistencyScoreOf(logs, frequency, targetDays)

calculateConsistencyScore(logs, frequency, targetDays) ==
    IF Len(logs) = 0 THEN Frac(0, 1)
    ELSE consistencyScoreOf(logs, frequency, targetDays)

\* ------------------------------------------------------ table accesses

\* The rows of a set as a list, log_date descending (ORDER BY log_date DESC).
RECURSIVE OrderByDateDesc(_)
OrderByDateDesc(rows) ==
    IF rows = {} THEN <<>>
    ELSE LET newest == CHOOSE r \in rows :
                           \A q \in rows : q.log_date <= r.log_date
         IN  <<newest>> \o OrderByDateDesc(rows \ {newest})

\* HabitLogModel.findByHabitAndDateRange
findByHabitAndDateRange(habitId, startDate, endDate) ==
    OrderByDateDesc({r \in habit_logs :
                        /\ r.habit_id = habitId
                        /\ r.log_date >= startDate
                        /\ r.log_date <= endDate})

\* StreakService.getDateNDaysAgo
getDateNDaysAgo(days) == Today - days

\* MySQL DAYOFWEEK(log_date): 1 = Sunday .. 7 = Saturday
DAYOFWEEK(date) == getDay(date) + 1

NoDay == 0      \* best_day_of_week = undefined

\* The query without its HAVING total_logs >= 5.
calculateBestDayOfWeekAnySample(habitId) ==
    LET rows == {r \in habit_logs : r.habit_id = habitId}
        group(w) == {r \in rows : DAYOFWEEK(r.log_date) = w}
        total(w) == Cardinality(group(w))
        rate(w) == RoundHalfUp(
                       10000 * Cardinality({r \in group(w) : r.completed}),
                       total(w))
        having == {w \in 1..7 : total(w) >= 1}
    IN  IF having = {} THEN {NoDay}
        ELSE {w \in having : \A v \in having : rate(v) <= rate(w)}

\* The rows the query of calculateBestDayOfWeek may return first: a weekday
\* group with at least 5 rows whose rate ROUND(completed / total * 100, 2) no
\* other such group exceeds (the order among equal rates is not specified).
\* No such group: undefined.
calculateBestDayOfWeek(habitId) ==
    LET rows == {r \in habit_logs : r.habit_id = habitId}
        group(w) == {r \in rows : DAYOFWEEK(r.log_date) = w}
        total(w) == Cardinality(group(w))
        rate(w) == RoundHalfUp(
                       10000 * Cardinality({r \in group(w) : r.completed}),
                       total(w))
        having == {w \in 1..7 : total(w) >= 5}
    IN  IF having = {} THEN {NoDay}
        ELSE {w \in having : \A v \in having : rate(v) <= rate(w)}

\* -------------------------------------- StreakService.calculateHabitStats

\* completion_rate is kept in hundredths of a percent (10000 is 100%):
\* Math.round(completionRate * 100) / 100 with completionRate =
\* completedLogs / totalLogs * 100.
calculateHabitStats(habitId, bestDay) ==
    LET habit == habits[habitId]
        logs == findByHabitAndDateRange(
                    habitId, getDateNDaysAgo(DefaultTimeframeDays), Today)
        totalLogs == Len(logs)
        completedLogs == CountCompleted(logs)
        streaks == calculateStreaks(logs)
    IN  [habit_id |-> habitId,
         current_streak |-> streaks.currentStreak,
         longest_streak |-> streaks.longestStreak,
         completion_rate |->
             IF totalLogs > 0
             THEN RoundHalfUp(completedLogs * 10000, totalLogs) ELSE 0,
         total_logs |-> totalLogs,
         completed_logs |-> completedLogs,
         last_completed_date |-> streaks.lastCompletedDate,
         best_day_of_week |-> bestDay,
         consistency_score |->
             calculateConsistencyScore(logs, habit.frequency, habit.target_days)]

\* ---------------------------------------------------------------- requests

NoResponse == [kind |-> "none"]

\* HabitModel.logCompletion: INSERT .. ON DUPLICATE KEY UPDATE completed = ?
\* on the unique key (habit_id, log_date).
upsert(habitId, date, completed) ==
    {r \in habit_logs : ~(r.habit_id = habitId /\ r.log_date = date)}
        \cup {[habit_id |-> habitId, log_date |-> date, completed |-> completed]}

\* HabitService.logCompletion: validateLogDate rejects a future date, then
\* HabitModel.logCompletion looks the habit up and writes the row.
logCompletion(habitId, date, completed) ==
    IF date > Today
    THEN /\ response' = [kind |-> "error",
                         message |-> "Cannot log habits for future dates"]
         /\ UNCHANGED <<habits, habit_logs, pending>>
    ELSE IF habitId \notin DOMAIN habits
    THEN /\ response' = [kind |-> "error", message |-> "Habit not found"]
         /\ UNCHANGED <<habits, habit_logs, pending>>
    ELSE /\ habit_logs' = upsert(habitId, date, completed)
         /\ response' = [kind |-> "logged"]
         /\ UNCHANGED <<habits, pending>>

LogCompletion ==
    \E habitId \in DOMAIN habits, date \in 1..(Today + 1), completed \in BOOLEAN :
        /\ logCompletion(habitId, date, completed)
        /\ Cardinality(habit_logs') <= MaxLogs

\* GET /habits/:id/stats: StreakService.calculateHabitStats
CalculateHabitStats ==
    \E habitId \in DOMAIN habits :
      \E bestDay \in calculateBestDayOfWeek(habitId) :
        /\ response' = [kind |-> "stats",
                        stats |-> calculateHabitStats(habitId, bestDay)]
        /\ UNCHANGED <<habits, habit_logs, pending>>

NoRequest == [active |-> FALSE, habits |-> <<>>]

Init ==
    /\ habits \in [{1} -> Schedules]
    /\ habit_logs = {}
    /\ response = NoResponse
    /\ pending = NoRequest

Next == LogCompletion \/ CalculateHabitStats

Spec == Init /\ [][Next]_vars

\* ------------------------------------ StreakService.predictNextMilestone

MaxStreak == 101        \* the largest current_streak given to the projection
MaxTotal == 40          \* the largest total_logs behind a completion_rate

\* The longest list calculateHabitStats(habitId, userId, 90) can read: one
\* row for each date from 90 days ago to today.
MilestoneWindowLogs == 91

milestones == <<3, 7, 14, 21, 30, 60, 90, 100>>

\* A ladder whose search accepts a milestone equal to the streak.
RECURSIVE findFromInclusive(_, _)
findFromInclusive(i, currentStreak) ==
    IF i > Len(milestones) THEN 0
    ELSE IF milestones[i] >= currentStreak THEN milestones[i]
    ELSE findFromInclusive(i + 1, currentStreak)

\* milestones.find(m => m > currentStreak) from index i on; 0 for undefined.
RECURSIVE findFrom(_, _)
findFrom(i, currentStreak) ==
    IF i > Len(milestones) THEN 0
    ELSE IF milestones[i] > currentStreak THEN milestones[i]
    ELSE findFrom(i + 1, currentStreak)

\* milestones.find(..) || stats.current_streak + 7
nextMilestoneInclusive(currentStreak) ==
    LET found == findFromInclusive(1, currentStreak)
    IN  IF found # 0 THEN found ELSE currentStreak + 7

nextMilestone(currentStreak) ==
    LET found == findFrom(1, currentStreak)
    IN  IF found # 0 THEN found ELSE currentStreak + 7

\* Math.ceil of the fraction n/d, n >= 0, d > 0.
Ceil(n, d) == (n + d - 1) \div d

\* The pairs <<missing days, completion_rate>>, among the missing days 1..30
\* of the ladder and the completion rates of at most MilestoneWindowLogs
\* logs, whose exact quotient missing / (completion_rate / 100) is an integer
\* while the double quotient the code computes lies above it: the double
\* nearest to 0.7 is below 0.7 and 21 / 0.7 is 30.000000000000004.
QuotientAboveInteger ==
    {<<21, 7000>>, <<21, 3500>>, <<21, 1750>>, <<21, 875>>,
     <<29, 580>>, <<29, 290>>, <<29, 145>>}

\* completionRate > 0 ? Math.ceil((nextMilestone - current_streak) /
\* completionRate) : 99, with completionRate = completion_rate / 100.
daysToReach(missing, completion_rate) ==
    IF completion_rate > 0
    THEN Ceil(missing * 10000, completion_rate)
           + (IF <<missing, completion_rate>> \in QuotientAboveInteger
              THEN 1 ELSE 0)
    ELSE 99

\* The completion rates of at most MilestoneWindowLogs logs for which
\* Math.round(completionRate * 100) is below the rounding of the exact
\* value: 0.575 * 100 is 57.49999999999999 in doubles.
RoundBelowHalf == {5750}

\* Math.min(Math.round(completionRate * 100), 95)
confidence(completion_rate) ==
    Min(RoundHalfUp(completion_rate, 100)
          - (IF completion_rate \in RoundBelowHalf THEN 1 ELSE 0), 95)

\* What calculateHabitStats(habitId, userId, 90) gave predictNextMilestone:
\* the statistics, or a rejection (habit not found, database error).
Rejected == [rejected |-> TRUE, current_streak |-> 0, completion_rate |-> 0]

predictNextMilestone(stats) ==
    IF stats.rejected
    THEN [nextMilestone |-> 0, daysToReach |-> 0, confidence |-> 0]
    ELSE LET next == nextMilestone(stats.current_streak)
         IN  [nextMilestone |-> next,
              daysToReach |-> daysToReach(next - stats.current_streak,
                                          stats.completion_rate),
              confidence |-> confidence(stats.completion_rate)]

\* The completion rates calculateHabitStats reports for 0..MaxTotal logs.
CompletionRates ==
    {0} \cup {RoundHalfUp(c * 10000, t) : <<c, t>> \in
                 {p \in (0..MaxTotal) \X (1..MaxTotal) : p[1] <= p[2]}}

\* The statistics calculateHabitStats may hand over.
MilestoneInputs ==
    {[rejected |-> FALSE, current_streak |-> cs, completion_rate |-> rate] :
        cs \in 0..MaxStreak, rate \in CompletionRates}

PredictNextMilestone ==
    /\ ~pending.rejected
    /\ response' = [kind |-> "milestone",
                    prediction |-> predictNextMilestone(pending)]
    /\ UNCHANGED <<habits, habit_logs, pending>>

\* The catch block: calculateHabitStats has thrown.
PredictNextMilestoneRejected ==
    /\ pending.rejected
    /\ response' = [kind |-> "milestone",
                    prediction |-> predictNextMilestone(pending)]
    /\ UNCHANGED <<habits, habit_logs, pending>>

InitMilestone ==
    /\ habits = <<DailySchedule>>
    /\ habit_logs = {}
    /\ response = NoResponse
    /\ pending \in MilestoneInputs \cup {Rejected}

NextMilestone == PredictNextMilestone \/ PredictNextMilestoneRejected

SpecMilestone == InitMilestone /\ [][NextMilestone]_vars

\* ------------------------------------------- StreakService.getUserStats

\* HabitModel.findByUserId: the user's habits, ORDER BY created_at DESC (ids
\* grow with the creation time).
RECURSIVE IdsDesc(_)
IdsDesc(ids) ==
    IF ids = {} THEN <<>>
    ELSE LET top == CHOOSE i \in ids : \A j \in ids : j <= i
         IN  <<top>> \o IdsDesc(ids \ {top})

findByUserId == IdsDesc(DOMAIN habits)

RECURSIVE SumOf(_)
SumOf(numbers) ==
    IF numbers = <<>> THEN 0 ELSE Head(numbers) + SumOf(Tail(numbers))

\* The first number of the list in place of the maximum.
MaxOfFirst(numbers) == IF numbers = <<>> THEN 0 ELSE Head(numbers)

RECURSIVE MaxOf(_)
MaxOf(numbers) ==
    IF numbers = <<>> THEN 0 ELSE Max(Head(numbers), MaxOf(Tail(numbers)))

\* An insertion that puts an entry in front of the entries of the same rate.
RECURSIVE InsertBeforeEqual(_, _)
InsertBeforeEqual(sorted, h) ==
    IF sorted = <<>> THEN <<h>>
    ELSE IF Head(sorted).completion_rate > h.completion_rate
         THEN <<Head(sorted)>> \o InsertBeforeEqual(Tail(sorted), h)
         ELSE <<h>> \o sorted

\* Insert into a list sorted by completion_rate descending, behind the
\* entries of the same rate (Array.prototype.sort is stable).
RECURSIVE InsertByCompletion(_, _)
InsertByCompletion(sorted, h) ==
    IF sorted = <<>> THEN <<h>>
    ELSE IF Head(sorted).completion_rate >= h.completion_rate
         THEN <<Head(sorted)>> \o InsertByCompletion(Tail(sorted), h)
         ELSE <<h>> \o sorted

\* habitsByCompletion.sort((a, b) => b.completion_rate - a.completion_rate)
RECURSIVE SortByCompletion(_)
SortByCompletion(list) ==
    IF list = <<>> THEN <<>>
    ELSE InsertByCompletion(SortByCompletion(SubSeq(list, 1, Len(list) - 1)),
                            list[Len(list)])

ZeroUserStats ==
    [overall_completion_rate |-> 0, total_active_habits |-> 0,
     total_completed_logs |-> 0, current_streak |-> 0, best_streak |-> 0,
     average_streak |-> 0, habits_by_completion |-> <<>>]

\* Math.round(x * 100) / 100 of the double x the code has for n/d, in
\* hundredths.  Where n/d lies exactly between two hundredths the rounding
\* errors of the sum decide the side: ((50 + 14.29) / 2) * 100 is
\* 3214.4999999999995 and gives 32.14.  Both sides are kept (halfUp).
RoundDouble(n, d, halfUp) ==
    IF 2 * (n % d) = d /\ ~halfUp THEN n \div d ELSE RoundHalfUp(n, d)

\* getUserStats once every calculateHabitStats promise has been fulfilled.
\* Rates and average_streak are in hundredths (Math.round(x * 100) / 100);
\* the mean of fewer than 8 streaks is never half a hundredth.
userStatsOf(habitList, halfUp) ==
    LET habitsByCompletion ==
            [i \in 1..Len(habitList) |->
                LET stats == calculateHabitStats(habitList[i],
                                 CHOOSE d \in calculateBestDayOfWeek(habitList[i]) : TRUE)
                IN  [habit_id |-> habitList[i],
                     completion_rate |-> stats.completion_rate,
                     current_streak |-> stats.current_streak]]
        n == Len(habitsByCompletion)
        rates == [i \in 1..n |-> habitsByCompletion[i].completion_rate]
        streaks == [i \in 1..n |-> habitsByCompletion[i].current_streak]
    IN  [overall_completion_rate |-> RoundDouble(SumOf(rates), n, halfUp),
         total_active_habits |-> n,
         total_completed_logs |->
             Cardinality({r \in habit_logs :
                             r.habit_id \in DOMAIN habits /\ r.completed}),
         current_streak |-> MaxOf(streaks),
         best_streak |-> MaxOf(streaks),
         average_streak |-> RoundHalfUp(100 * SumOf(streaks), n),
         habits_by_completion |-> SortByCompletion(habitsByCompletion)]

\* getUserStats up to its first await: HabitModel.findByUserId.
GetUserStatsBegin ==
    /\ ~pending.active
    /\ pending' = [active |-> TRUE, habits |-> findByUserId]
    /\ response' = NoResponse
    /\ UNCHANGED <<habits, habit_logs>>

\* The rest of getUserStats.  calculateHabitStats throws for a habit that
\* findById no longer finds; Promise.all then rejects, and the catch block
\* logs the error and throws it again.
GetUserStatsEnd ==
    /\ pending.active
    /\ pending' = NoRequest
    /\ \E halfUp \in BOOLEAN :
         response' =
           IF Len(pending.habits) = 0
           THEN [kind |-> "userStats", stats |-> ZeroUserStats]
           ELSE IF \E i \in 1..Len(pending.habits) :
                       pending.habits[i] \notin DOMAIN habits
           THEN [kind |-> "rejected",
                 message |-> "Habit not found or access denied"]
           ELSE [kind |-> "userStats",
                 stats |-> userStatsOf(pending.habits, halfUp)]
    /\ UNCHANGED <<habits, habit_logs>>

\* HabitModel.deleteHabit (User.ts): the habit and its logs, in a transaction.
DeleteHabit ==
    \E habitId \in DOMAIN habits :
        /\ habits' = [h \in DOMAIN habits \ {habitId} |-> habits[h]]
        /\ habit_logs' = {r \in habit_logs : r.habit_id # habitId}
        /\ response' = [kind |-> "deleted"]
        /\ UNCHANGED pending

UserLogCompletion ==
    \E habitId \in 1..MaxHabits, date \in 1..MaxUserDay, completed \in BOOLEAN :
        /\ logCompletion(habitId, date, completed)
        /\ Cardinality(habit_logs') <= MaxUserLogs

InitUser ==
    /\ habits \in [1..MaxHabits -> {DailySchedule, WeeklySchedule({1})}]
    /\ habit_logs = {}
    /\ response = NoResponse
    /\ pending = NoRequest

NextUser ==
    \/ UserLogCompletion
    \/ DeleteHabit
    \/ GetUserStatsBegin
    \/ GetUserStatsEnd

SpecUser == InitUser /\ [][NextUser]_vars

\* ------------------------- getUserStats over the stores of a few habits

MaxAggHabits == 3       \* habits of the user
MaxAggDay == 2          \* dates 1..MaxAggDay of the user's logs
MaxAggLogs == 3         \* rows of the user's logs

\* The rows of a table that has, for every (habit, date), no row, a
\* completed row or a missed row: (habit_id, log_date) is a unique key.
RowsOf(table) ==
    {[habit_id |-> slot[1], log_date |-> slot[2],
      completed |-> table[slot] = "completed"] :
        slot \in {k \in DOMAIN table : table[k] # "none"}}

\* A table of at most MaxAggLogs rows.
WithinAggLogs(table) ==
    Cardinality({k \in DOMAIN table : table[k] # "none"}) <= MaxAggLogs

InitAggregate ==
    \E n \in 0..MaxAggHabits :
      \E table \in [(1..n) \X (1..MaxAggDay) -> {"none", "completed", "missed"}] :
        /\ WithinAggLogs(table)
        /\ habits \in [1..n -> {DailySchedule}]
        /\ habit_logs = RowsOf(table)
        /\ response = NoResponse
        /\ pending = NoRequest

NextAggregate == GetUserStatsBegin \/ GetUserStatsEnd

SpecAggregate == InitAggregate /\ [][NextAggregate]_vars

\* --------------- calculateBestDayOfWeek over the whole history of a habit

MaxWeeks == 6           \* logged weeks of one weekday

\* The weekdays of the history, as dates of the week before last: a Monday,
\* a Saturday and a Sunday.
HistoryWeekdays == {-13, -8, -7}

\* total rows of one weekday, one per week going back, the newest
\* completedRows of them completed.
WeekdayHistory(weekday, total, completedRows) ==
    {[habit_id |-> 1, log_date |-> weekday - 7 * (k - 1),
      completed |-> k <= completedRows] : k \in 1..total}

\* The stores with 0..MaxWeeks rows for each weekday of the history.
Histories ==
    {UNION {WeekdayHistory(d, count[d][1], count[d][2]) : d \in HistoryWeekdays} :
        count \in [HistoryWeekdays ->
                      {p \in (0..MaxWeeks) \X (0..MaxWeeks) : p[2] <= p[1]}]}

\* calculateHabitStats line 1206: the best day of the habit's logs.
CalculateBestDayOfWeek ==
    \E day \in calculateBestDayOfWeek(1) :
        /\ response' = [kind |-> "bestDay", best_day_of_week |-> day]
        /\ UNCHANGED <<habits, habit_logs, pending>>

InitBestDay ==
    /\ habits = <<DailySchedule>>
    /\ habit_logs \in Histories
    /\ response = NoResponse
    /\ pending = NoRequest

NextBestDay == CalculateBestDayOfWeek

SpecBestDay == InitBestDay /\ [][NextBestDay]_vars

\* ------------- the streak and score computations on a caller's log list

MaxListDay == 4         \* dates 1..MaxListDay of the entries of a list
MaxListLen == 4         \* entries of a list

\* The log lists of at most MaxListLen entries with unique dates, in every
\* order.
LogLists ==
    UNION {{list \in [1..n -> [habit_id : {1}, log_date : 1..MaxListDay,
                               completed : BOOLEAN]] :
               \A i, j \in 1..n : i # j => list[i].log_date # list[j].log_date} :
           n \in 0..MaxListLen}

\* The caller's array after logs.sort(..): Array.prototype.sort sorts the
\* array it is called on.
logsAfterSortInPlace(logs) ==
    LET heap == [logs |-> logs]
        sorted == [heap EXCEPT !.logs = SortDesc(heap.logs)]
    IN  sorted.logs

\* The caller's array after [...logs].sort(..): the spread makes a new array
\* and sort works on that one.
logsAfterSort(logs) ==
    LET heap == [logs |-> logs, copy |-> logs]
        sorted == [heap EXCEPT !.copy = SortDesc(heap.copy)]
    IN  sorted.logs

\* StreakService.calculateStreaks(logs) on the caller's list.
CalculateStreaks ==
    /\ response' = [kind |-> "streaks",
                    streaks |-> calculateStreaks(pending.logs)]
    /\ pending' = [logs |-> logsAfterSort(pending.logs)]
    /\ UNCHANGED <<habits, habit_logs>>

\* The streak part of HabitLogModel.getHabitStats on the same list.
GetHabitStatsStreaks ==
    /\ response' = [kind |-> "logModel",
                    streaks |-> getHabitStatsStreaks(pending.logs)]
    /\ pending' = [logs |-> logsAfterSort(logsAfterSort(pending.logs))]
    /\ UNCHANGED <<habits, habit_logs>>

\* StreakService.calculateConsistencyScore(logs, frequency, targetDays); it
\* calls calculateStreaks and calculateExpectedDays, which reads the list
\* with map.
CalculateConsistencyScore ==
    /\ response' = [kind |-> "score",
                    score |-> calculateConsistencyScore(
                                  pending.logs, habits[1].frequency,
                                  habits[1].target_days)]
    /\ pending' = [logs |-> logsAfterSort(pending.logs)]
    /\ UNCHANGED <<habits, habit_logs>>

InitStreaks ==
    /\ habits \in [{1} -> {DailySchedule, WeeklySchedule({1, 3, 5})}]
    /\ habit_logs = {}
    /\ response = NoResponse
    /\ pending \in {[logs |-> list] : list \in LogLists}

NextStreaks ==
    \/ CalculateStreaks
    \/ GetHabitStatsStreaks
    \/ CalculateConsistencyScore

SpecStreaks == InitStreaks /\ [][NextStreaks]_vars

\* --------------- calculateHabitStats called again on an unchanged store

\* GET /habits/:id/stats over the histories of calculateBestDayOfWeek; no
\* request changes the store, the schedule or the current date.
InitRepeat ==
    /\ habits \in [{1} -> {DailySchedule, WeeklySchedule({1})}]
    /\ habit_logs \in Histories
    /\ response = NoResponse
    /\ pending = NoRequest

NextRepeat == CalculateHabitStats

SpecRepeat == InitRepeat /\ [][NextRepeat]_vars

\* ------------------------------------ the operations that record a log

MaxCallers == 2         \* concurrent calls of the legacy logHabit
MaxLogDay == 2          \* dates 1..MaxLogDay of the recorded logs

LogRow(habitId, date, completed) ==
    [habit_id |-> habitId, log_date |-> date, completed |-> completed]

\* The rows of habit_logs for (habit_id, log_date).
RowsFor(habitId, date) ==
    {r \in habit_logs : r.habit_id = habitId /\ r.log_date = date}

Idle == [pc |-> "idle"]

\* HabitModel.logCompletion (Habit.ts): one INSERT .. ON DUPLICATE KEY
\* UPDATE statement.
ModelLogCompletion ==
    \E date \in 1..MaxLogDay, completed \in BOOLEAN :
        /\ habit_logs' = upsert(1, date, completed)
        /\ response' = [kind |-> "recorded", by |-> "logCompletion",
                        row |-> LogRow(1, date, completed)]
        /\ UNCHANGED <<habits, pending>>

\* HabitLogModel.createOrUpdate: one INSERT .. ON DUPLICATE KEY UPDATE
\* statement, then a SELECT.
CreateOrUpdate ==
    \E date \in 1..MaxLogDay, completed \in BOOLEAN :
        /\ habit_logs' = upsert(1, date, completed)
        /\ response' = [kind |-> "recorded", by |-> "createOrUpdate",
                        row |-> LogRow(1, date, completed)]
        /\ UNCHANGED <<habits, pending>>

\* HabitModel.logHabit (User.ts) up to its first statement: SELECT id FROM
\* habit_logs WHERE habit_id = ? AND log_date = ?.
LogHabitSelect(p) ==
    /\ pending[p].pc = "idle"
    /\ \E date \in 1..MaxLogDay, status \in BOOLEAN :
           pending' = [pending EXCEPT ![p] =
                          [pc |-> "write", date |-> date, status |-> status,
                           existingLogs |-> RowsFor(1, date)]]
    /\ UNCHANGED <<habits, habit_logs, response>>

\* The rest of logHabit: UPDATE the row it has found, or INSERT a new one.
\* The INSERT of a (habit_id, log_date) that is in the table meanwhile
\* fails on the unique key; the catch block throws DB_ERROR.
LogHabitWrite(p) ==
    LET call == pending[p]
        row == LogRow(1, call.date, call.status)
    IN  /\ call.pc = "write"
        /\ pending' = [pending EXCEPT ![p] = Idle]
        /\ IF call.existingLogs # {}
           THEN /\ habit_logs' = upsert(1, call.date, call.status)
                /\ response' = [kind |-> "recorded", by |-> "logHabit", row |-> row]
           ELSE IF RowsFor(1, call.date) # {}
           THEN /\ habit_logs' = habit_logs
                /\ response' = [kind |-> "failed", by |-> "logHabit", row |-> row]
           ELSE /\ habit_logs' = habit_logs \cup {row}
                /\ response' = [kind |-> "recorded", by |-> "logHabit", row |-> row]
        /\ UNCHANGED habits

InitLogging ==
    /\ habits = <<DailySchedule>>
    /\ habit_logs = {}
    /\ response = NoResponse
    /\ pending = [p \in 1..MaxCallers |-> Idle]

NextLogging ==
    \/ ModelLogCompletion
    \/ CreateOrUpdate
    \/ \E p \in 1..MaxCallers : LogHabitSelect(p)
    \/ \E p \in 1..MaxCallers : LogHabitWrite(p)

SpecLogging == InitLogging /\ [][NextLogging]_vars

\* ----------------------------------------- bulkLogUpdate (user.model.js)

MaxBulkLogs == 3        \* entries of the logs argument of bulkLogUpdate
NotOwned == 3           \* a habit id that findById(habitId, userId) misses
MalformedDate == -1     \* a date string that is not YYYY-MM-DD

NoError == "none"

\* HabitService.validateLogDate: the message of the Error it throws.
validateLogDate(date) ==
    IF date = MalformedDate THEN "Invalid date format. Use YYYY-MM-DD"
    ELSE IF date > Today THEN "Cannot log habits for future dates"
    ELSE NoError

\* The callback of logs.map without its catch: the promise rejects.
rethrown(habitId, message) ==
    [pc |-> "rejected", result |-> [habitId |-> habitId, error |-> message]]

\* catch (error) { return { habitId, success: false, error: error.message } }
caught(habitId, message) ==
    [pc |-> "fulfilled",
     result |-> [habitId |-> habitId, success |-> FALSE, error |-> message]]

\* return { habitId: log.habitId, success: true }
succeeded(habitId) ==
    [pc |-> "fulfilled", result |-> [habitId |-> habitId, success |-> TRUE]]

Awaiting(step) == [pc |-> step]

\* The arguments of a bulkLogUpdate call: one date, a list of entries.
BulkEntries == {[habitId |-> h, completed |-> c] :
                   h \in {1, 2, NotOwned}, c \in BOOLEAN}

BulkInputs ==
    {[date |-> d, logs |-> l, started |-> FALSE, tasks |-> <<>>] :
        d \in {MalformedDate, Today, Today + 1},
        l \in UNION {[1..n -> BulkEntries] : n \in 0..MaxBulkLogs}}

\* logs.map(async (log) => ..): every callback runs to its first await, in
\* input order; validateLogDate throws before any await.
BulkLogUpdateBegin ==
    /\ ~pending.started
    /\ pending' = [pending EXCEPT
           !.started = TRUE,
           !.tasks = [i \in DOMAIN pending.logs |->
               IF validateLogDate(pending.date) # NoError
               THEN caught(pending.logs[i].habitId, validateLogDate(pending.date))
               ELSE Awaiting("findById")]]
    /\ UNCHANGED <<habits, habit_logs, response>>

\* HabitModel.logCompletion: const habit = await this.findById(..);
\* if (!habit) throw new Error('Habit not found')
BulkFindById(i) ==
    /\ pending.started
    /\ i \in DOMAIN pending.tasks
    /\ pending.tasks[i].pc = "findById"
    /\ pending' = [pending EXCEPT !.tasks[i] =
           IF pending.logs[i].habitId \in DOMAIN habits
           THEN Awaiting("insert")
           ELSE caught(pending.logs[i].habitId, "Habit not found")]
    /\ UNCHANGED <<habits, habit_logs, response>>

\* INSERT INTO habit_logs .. ON DUPLICATE KEY UPDATE completed = ?, notes = ?
BulkInsert(i) ==
    /\ pending.started
    /\ i \in DOMAIN pending.tasks
    /\ pending.tasks[i].pc = "insert"
    /\ habit_logs' = upsert(pending.logs[i].habitId, pending.date,
                            pending.logs[i].completed)
    /\ pending' = [pending EXCEPT !.tasks[i] = Awaiting("select")]
    /\ UNCHANGED <<habits, response>>

\* SELECT * FROM habit_logs WHERE id = ?, then logCompletion returns and the
\* callback returns its success entry.
BulkSelect(i) ==
    /\ pending.started
    /\ i \in DOMAIN pending.tasks
    /\ pending.tasks[i].pc = "select"
    /\ pending' = [pending EXCEPT
           !.tasks[i] = succeeded(pending.logs[i].habitId)]
    /\ UNCHANGED <<habits, habit_logs, response>>

\* await Promise.all(..): rejects with the first rejected promise (the outer
\* catch rethrows), otherwise resolves with the values in input order.
BulkLogUpdateEnd ==
    /\ pending.started
    /\ response = NoResponse
    /\ IF \E i \in DOMAIN pending.tasks : pending.tasks[i].pc = "rejected"
       THEN response' = [kind |-> "rejected"]
       ELSE /\ \A i \in DOMAIN pending.tasks : pending.tasks[i].pc = "fulfilled"
            /\ response' = [kind |-> "bulk",
                            results |-> [i \in DOMAIN pending.tasks |->
                                            pending.tasks[i].result]]
    /\ UNCHANGED <<habits, habit_logs, pending>>

InitBulk ==
    /\ habits = <<DailySchedule, DailySchedule>>
    /\ habit_logs = {}
    /\ response = NoResponse
    /\ pending \in BulkInputs

NextBulk ==
    \/ BulkLogUpdateBegin
    \/ \E i \in 1..MaxBulkLogs : BulkFindById(i)
    \/ \E i \in 1..MaxBulkLogs : BulkInsert(i)
    \/ \E i \in 1..MaxBulkLogs : BulkSelect(i)
    \/ BulkLogUpdateEnd

SpecBulk == InitBulk /\ [][NextBulk]_vars

\* ------------------------------------------------------------------ claims

\* The state is the one a calculateHabitStats request for habit 1 answered.
StatsAnswered == response.kind = "stats" /\ response.stats.habit_id = 1

\* The log series of habit 1, newest first.
Series == findByHabitAndDateRange(1, getDateNDaysAgo(DefaultTimeframeDays), Today)

\* The number of entries of the run that starts at entry i of a newest-first
\* series and goes on while the next entry is completed and 1 day older.
RECURSIVE RunFrom(_, _)
RunFrom(s, i) ==
    IF /\ i + 1 <= Len(s)
       /\ s[i + 1].completed
       /\ s[i].log_date - s[i + 1].log_date = 1
    THEN 1 + RunFrom(s, i + 1)
    ELSE 1

\* The run that starts at the most recent completed entry (0: none completed).
RecentRun(s) ==
    LET done == {i \in 1..Len(s) : s[i].completed}
    IN  IF done = {} THEN 0
        ELSE RunFrom(s, CHOOSE i \in done : \A j \in done : i <= j)

\* The longest run of completed entries that are next to each other in the
\* series, whatever their dates.
LongestCompletedRun(s) ==
    LET runs == {r \in (1..Len(s)) \X (1..Len(s)) :
                    r[1] <= r[2] /\ \A k \in r[1]..r[2] : s[k].completed}
    IN  IF runs = {} THEN 0
        ELSE LET best == CHOOSE r \in runs :
                             \A q \in runs : q[2] - q[1] <= r[2] - r[1]
             IN  best[2] - best[1] + 1

\* C1: currentStreak is the number of entries of the run that starts at the
\* most recent completed entry and goes backward while the next entry is
\* completed and dated exactly 1 day earlier.
C1_CurrentStreakIsRecentRun ==
    StatsAnswered => response.stats.current_streak = RecentRun(Series)

\* C2: longestStreak is the maximum of the running counter of completed
\* entries over the whole series, runs before a date gap included.
C2_LongestStreakIsLongestRun ==
    StatsAnswered => response.stats.longest_streak = LongestCompletedRun(Series)

\* C3: when the most recent entry is not completed, currentStreak is 0 and
\* longestStreak is the longest run of completed entries among the older ones.
C3_MissedNewestGivesZero ==
    (StatsAnswered /\ Series # <<>> /\ ~Series[1].completed) =>
        /\ response.stats.current_streak = 0
        /\ response.stats.longest_streak = LongestCompletedRun(Tail(Series))

\* The series has N >= 1 entries on N consecutive days, all completed.
AllCompletedContiguous(s) ==
    /\ s # <<>>
    /\ \A i \in 1..Len(s) : s[i].completed
    /\ \A i \in 1..(Len(s) - 1) : s[i].log_date - s[i + 1].log_date = 1

\* C4: N entries on N consecutive days, all completed, give currentStreak =
\* longestStreak = N and completionRate = 100.
C4_AllCompletedContiguous ==
    (StatsAnswered /\ AllCompletedContiguous(Series)) =>
        /\ response.stats.current_streak = Len(Series)
        /\ response.stats.longest_streak = Len(Series)
        /\ response.stats.completion_rate = 10000

C4_Witness ==
    StatsAnswered /\ AllCompletedContiguous(Series) /\ Len(Series) = 3

\* C5: an empty series gives currentStreak = longestStreak = 0,
\* lastCompletedDate = null, completionRate = 0 and consistencyScore = 0.
C5_EmptySeries ==
    (StatsAnswered /\ Series = <<>>) =>
        /\ response.stats.current_streak = 0
        /\ response.stats.longest_streak = 0
        /\ response.stats.last_completed_date = NoDate
        /\ response.stats.completion_rate = 0
        /\ response.stats.consistency_score = Frac(0, 1)

C5_Witness == StatsAnswered /\ Series = <<>>

\* Two completed entries next to each other in the series are more than 1
\* day apart.
HasCompletedGap(s) ==
    \E i \in 1..(Len(s) - 1) :
        /\ s[i].completed /\ s[i + 1].completed
        /\ s[i].log_date - s[i + 1].log_date > 1

\* C6: with a date gap between two completed entries, currentStreak counts
\* only the entries of the most recent contiguous completed run, and the
\* absent dates are no entries of the series.
C6_GapDoesNotMerge ==
    (StatsAnswered /\ HasCompletedGap(Series)) =>
        /\ response.stats.current_streak = RecentRun(Series)
        /\ response.stats.total_logs = Len(Series)

\* C7: consistencyScore is an integer in 0..100, never NaN, for every series
\* and every valid schedule.
C7_ConsistencyScoreBounded ==
    StatsAnswered =>
        /\ ~response.stats.consistency_score.nan
        /\ response.stats.consistency_score.den = 1
        /\ response.stats.consistency_score.num \in 0..100

\* The dates of the series whose weekday (Sunday as 7) is a target weekday.
TargetDates(s, targetDays) ==
    {s[i].log_date : i \in {j \in 1..Len(s) :
        (IF s[j].log_date % 7 = 0 THEN 7 ELSE s[j].log_date % 7) \in targetDays}}

\* The schedule score computed for the series and schedule of habit 1.
SeriesScheduleScore ==
    scheduleScore(Series, habits[1].frequency, habits[1].target_days)

\* C8: a weekly schedule with no logged date on a target weekday has the
\* schedule score 0, whatever the number of completed entries.
C8_NoExpectedDaysGivesZero ==
    (/\ StatsAnswered /\ Series # <<>>
     /\ habits[1].frequency = "weekly"
     /\ TargetDates(Series, habits[1].target_days) = {}) =>
        SeriesScheduleScore = Frac(0, 1)

\* C9: for a weekly schedule, expectedDays is the number of distinct dates
\* of the series on a target weekday, and the schedule score is
\* min(20, completedDays / expectedDays * 20).
C9_ExpectedDaysCountsDates ==
    (/\ StatsAnswered
     /\ habits[1].frequency = "weekly"
     /\ TargetDates(Series, habits[1].target_days) # {}) =>
        LET expectedDays == Cardinality(TargetDates(Series, habits[1].target_days))
            completedDays == CountCompleted(Series)
        IN  /\ calculateExpectedDays(Series, habits[1].target_days) = expectedDays
            /\ ~SeriesScheduleScore.nan
            /\ SeriesScheduleScore.num * expectedDays =
                   Min(20 * expectedDays, completedDays * 20) * SeriesScheduleScore.den

\* C10: a habit whose statistics cannot be computed does not make
\* getUserStats reject: the request is answered with a UserStats that
\* covers every habit it has read.
C10_UserStatsIsolatesFailures ==
    [][GetUserStatsEnd =>
          /\ response'.kind = "userStats"
          /\ response'.stats.total_active_habits = Len(pending.habits)]_vars


\* The dates of the completed entries of a series.
CompletedDates(s) == {s[i].log_date : i \in {j \in 1..Len(s) : s[j].completed}}

\* C11: lastCompletedDate is null exactly when no entry is completed (and
\* then currentStreak = 0); otherwise it is the date of the most recent
\* completed entry.
C11_LastCompletedDate ==
    StatsAnswered =>
        LET done == CompletedDates(Series)
        IN  /\ (response.stats.last_completed_date = NoDate) <=> (done = {})
            /\ (done = {}) => response.stats.current_streak = 0
            /\ (done # {}) =>
                   /\ response.stats.last_completed_date \in done
                   /\ \A d \in done : d <= response.stats.last_completed_date

\* Stats answered for a series whose newest entry is missed and that has
\* two completed entries behind it.
C11_Witness ==
    /\ StatsAnswered
    /\ Len(Series) >= 3
    /\ ~Series[1].completed
    /\ Cardinality(CompletedDates(Series)) >= 2

\* The newest entry of the series is completed and dated 1 day after the
\* entry before it, which is completed: the series is the one before it
\* (its tail) with the next day appended.
NextDayAppended(s) ==
    /\ Len(s) >= 2
    /\ s[1].completed /\ s[2].completed
    /\ s[1].log_date = s[2].log_date + 1

\* C12: appending one more completed entry, dated 1 day after a completed
\* newest entry, makes currentStreak the old currentStreak plus 1.
C12_AppendIsMonotone ==
    (StatsAnswered /\ NextDayAppended(Series)) =>
        response.stats.current_streak =
            calculateStreaks(Tail(Series)).currentStreak + 1

\* The appended series has been evaluated: three completed consecutive
\* days, the newest one day after the former newest.
C12_Witness ==
    /\ StatsAnswered
    /\ NextDayAppended(Series)
    /\ response.stats.current_streak = 3


\* min(currentStreak / max(longestStreak, 1) * 30, 30) as the fraction
\* num / den.
StreakComponent(currentStreak, longestStreak) ==
    Frac(Min(30 * currentStreak, 30 * Max(longestStreak, 1)),
         Max(longestStreak, 1))

\* C13: the consistency score is round(completion + streak + schedule) with
\* completion = completedLogs / totalLogs * 50 (0 for no logs), streak =
\* min(currentStreak / max(longestStreak, 1) * 30, 30) and schedule the
\* schedule score, a number in 0..20; the streak component is 30 only when
\* currentStreak >= longestStreak.
C13_ConsistencyFormula ==
    (StatsAnswered /\ Series # <<>>) =>
        LET st == response.stats
            streak == StreakComponent(st.current_streak, st.longest_streak)
            schedule == SeriesScheduleScore
        IN  /\ ~schedule.nan
            /\ 0 <= schedule.num /\ schedule.num <= 20 * schedule.den
            /\ st.consistency_score =
                   Frac(RoundHalfUp(
                            50 * st.completed_logs * streak.den * schedule.den
                              + streak.num * st.total_logs * schedule.den
                              + schedule.num * st.total_logs * streak.den,
                            st.total_logs * streak.den * schedule.den), 1)
            /\ (streak.num = 30 * streak.den) =>
                   st.current_streak >= st.longest_streak


\* C14: for a daily schedule the schedule score is exactly 20 when the
\* series has at least one completed entry and exactly 0 otherwise, however
\* many entries are missed; the consistency score is built on that value.
C14_DailyScheduleScore ==
    (StatsAnswered /\ habits[1].frequency = "daily") =>
        LET st == response.stats
            streak == StreakComponent(st.current_streak, st.longest_streak)
            schedule == IF \E i \in 1..Len(Series) : Series[i].completed
                        THEN 20 ELSE 0
        IN  /\ SeriesScheduleScore = Frac(schedule, 1)
            /\ Series # <<>> =>
                   st.consistency_score =
                       Frac(RoundHalfUp(
                                50 * st.completed_logs * streak.den
                                  + streak.num * st.total_logs
                                  + schedule * st.total_logs * streak.den,
                                st.total_logs * streak.den), 1)

\* A daily habit with one completed entry among three missed ones.
C14_Witness ==
    /\ StatsAnswered
    /\ habits[1].frequency = "daily"
    /\ Len(Series) = 4
    /\ Cardinality(CompletedDates(Series)) = 1
    /\ SeriesScheduleScore = Frac(20, 1)


\* C15: completionRate = completedLogs / totalLogs * 100 rounded to 2
\* decimals (kept in hundredths: the nearest integer to completedLogs *
\* 10000 / totalLogs), and 0 when totalLogs = 0; so 0 <= completionRate <=
\* 100 and completedLogs <= totalLogs.
C15_CompletionRate ==
    StatsAnswered =>
        LET st == response.stats
            off == st.completion_rate * st.total_logs - 10000 * st.completed_logs
        IN  /\ st.total_logs = Len(Series)
            /\ st.completed_logs = Cardinality(CompletedDates(Series))
            /\ st.completed_logs <= st.total_logs
            /\ st.completion_rate \in 0..10000
            /\ st.total_logs = 0 => st.completion_rate = 0
            /\ st.total_logs > 0 =>
                   /\ 2 * off <= st.total_logs
                   /\ 2 * off > -st.total_logs

\* 2 of 3 entries completed: 66.666.. is reported as 66.67.
C15_Witness ==
    /\ StatsAnswered
    /\ response.stats.total_logs = 3
    /\ response.stats.completed_logs = 2
    /\ response.stats.completion_rate = 6667


\* predictNextMilestone has answered for statistics that were computed.
MilestoneAnswered == response.kind = "milestone" /\ ~pending.rejected

\* C16: nextMilestone is the first value of 3, 7, 14, 21, 30, 60, 90, 100
\* strictly greater than currentStreak, and currentStreak + 7 when
\* currentStreak >= 100; so nextMilestone > currentStreak.
C16_MilestoneLadder ==
    MilestoneAnswered =>
        LET ladder == {3, 7, 14, 21, 30, 60, 90, 100}
            cs == pending.current_streak
            next == response.prediction.nextMilestone
        IN  /\ next > cs
            /\ cs >= 100 => next = cs + 7
            /\ cs < 100 =>
                   /\ next \in ladder
                   /\ \A m \in ladder : m > cs => next <= m

\* The streak 100 has left the ladder: the next milestone is 107.
C16_Witness ==
    /\ MilestoneAnswered
    /\ pending.current_streak = 100
    /\ response.prediction.nextMilestone = 107

\* C17: estimatedDaysToReach = ceil((nextMilestone - currentStreak) /
\* (completionRate / 100)) when completionRate > 0, and 99 when
\* completionRate = 0; never a division by zero, infinity or an error.
C17_EstimatedDays ==
    MilestoneAnswered =>
        LET missing == response.prediction.nextMilestone - pending.current_streak
            rate == pending.completion_rate
        IN  response.prediction.daysToReach =
                IF rate > 0
                THEN CHOOSE n \in 0..(missing * 10000) :
                         /\ n * rate >= missing * 10000
                         /\ (n - 1) * rate < missing * 10000
                ELSE 99


\* getUserStats has answered with a UserStats.
UserStatsAnswered == response.kind = "userStats"

\* What getUserStats collects before it aggregates: one entry for each habit
\* of findByUserId, in that order.
PerHabitStats ==
    [i \in 1..Len(findByUserId) |->
        LET stats == calculateHabitStats(findByUserId[i], NoDay)
        IN  [habit_id |-> findByUserId[i],
             completion_rate |-> stats.completion_rate,
             current_streak |-> stats.current_streak]]

RateSum(list) == SumOf([i \in 1..Len(list) |-> list[i].completion_rate])
StreakSum(list) == SumOf([i \in 1..Len(list) |-> list[i].current_streak])
StreakMax(list) ==
    IF list = <<>> THEN 0
    ELSE CHOOSE m \in {list[i].current_streak : i \in 1..Len(list)} :
             \A i \in 1..Len(list) : list[i].current_streak <= m

\* currentStreak and bestStreak are the maximum of the habits' currentStreak
\* and averageStreak is their mean rounded to 2 decimals (0 for no habits).
StreakAggregates(list) ==
    LET us == response.stats
        n == Len(list)
        sum == StreakSum(list)
        max == StreakMax(list)
    IN  /\ us.current_streak = max
        /\ us.best_streak = max
        /\ n = 0 => us.average_streak = 0
        /\ n > 0 => /\ 2 * (us.average_streak * n - 100 * sum) <= n
                    /\ 2 * (100 * sum - us.average_streak * n) <= n

\* C18 as stated: the overall completion rate is the arithmetic mean of the
\* per-habit completionRate values (0 for no habits), currentStreak and
\* bestStreak are the maximum currentStreak, averageStreak is the mean
\* rounded to 2 decimals.
C18_Original ==
    UserStatsAnswered =>
        LET list == PerHabitStats
        IN  /\ response.stats.overall_completion_rate * Len(list) = RateSum(list)
            /\ StreakAggregates(list)

\* C18: the overall completion rate is the arithmetic mean of the per-habit
\* completionRate values rounded to 2 decimals (0 for no habits),
\* currentStreak and bestStreak are the maximum currentStreak, averageStreak
\* is the mean of currentStreak rounded to 2 decimals.
C18_UserAggregation ==
    UserStatsAnswered =>
        LET list == PerHabitStats
            n == Len(list)
            sum == RateSum(list)
            overall == response.stats.overall_completion_rate
        IN  /\ n = 0 => overall = 0
            /\ n > 0 => /\ 2 * (overall * n - sum) <= n
                        /\ 2 * (sum - overall * n) <= n
            /\ StreakAggregates(list)

\* Three habits, one of them at 100%: the mean 33.333.. is reported as 33.33;
\* the streaks 2, 0, 0 have the maximum 2 and the mean 0.67.
C18_Witness ==
    /\ UserStatsAnswered
    /\ Len(PerHabitStats) = 3
    /\ RateSum(PerHabitStats) = 10000
    /\ response.stats.overall_completion_rate = 3333
    /\ response.stats.best_streak = 2
    /\ response.stats.average_streak = 67


\* The position of a habit in a list of per-habit entries.
PositionIn(list, habitId) ==
    CHOOSE i \in 1..Len(list) : list[i].habit_id = habitId

\* C19: the ranking of UserStats is a permutation of the input habits sorted
\* by completionRate descending, and habits of equal completionRate keep
\* their input order.
C19_RankingStable ==
    UserStatsAnswered =>
        LET ranking == response.stats.habits_by_completion
            input == PerHabitStats
            n == Len(input)
        IN  /\ Len(ranking) = n
            /\ \A i \in 1..n : \E j \in 1..n : ranking[j] = input[i]
            /\ \A i, j \in 1..n :
                   i < j =>
                     /\ ranking[i].completion_rate >= ranking[j].completion_rate
                     /\ ranking[i].completion_rate = ranking[j].completion_rate =>
                            PositionIn(input, ranking[i].habit_id)
                              < PositionIn(input, ranking[j].habit_id)

\* Three habits, the first and the last of the input list at the same rate
\* and the one between them below it.
C19_Witness ==
    /\ UserStatsAnswered
    /\ Len(PerHabitStats) = 3
    /\ PerHabitStats[1].completion_rate = 10000
    /\ PerHabitStats[2].completion_rate = 0
    /\ PerHabitStats[3].completion_rate = 10000
    /\ response.stats.habits_by_completion =
           <<PerHabitStats[1], PerHabitStats[3], PerHabitStats[2]>>


\* The logged observations of habit 1 on the weekday that the number w
\* stands for in a result of calculateBestDayOfWeek.
Observations(w) ==
    {r \in habit_logs : r.habit_id = 1 /\ r.log_date % 7 = w - 1}

\* The completion rate of a weekday with observations, to 2 decimals (in
\* hundredths of a percent, halves up).
WeekdayRate(w) ==
    LET done == Cardinality({r \in Observations(w) : r.completed})
        all == Cardinality(Observations(w))
    IN  (20000 * done + all) \div (2 * all)

QualifyingWeekdays == {w \in 1..7 : Cardinality(Observations(w)) >= 5}

\* C20: bestWeekday is chosen only among the weekdays with at least 5 logged
\* observations in the habit's whole history; it has the highest completion
\* rate among those, and there is no value when no weekday has 5
\* observations.
C20_BestDayMinimumSample ==
    response.kind = "bestDay" =>
        LET best == response.best_day_of_week
        IN  /\ (best = NoDay) <=> (QualifyingWeekdays = {})
            /\ best # NoDay =>
                   /\ best \in QualifyingWeekdays
                   /\ \A w \in QualifyingWeekdays :
                          WeekdayRate(w) <= WeekdayRate(best)

\* Two weekdays with 5 or more observations and different rates, and a third
\* one with fewer observations and a rate above both.
C20_Witness ==
    /\ response.kind = "bestDay"
    /\ Cardinality(QualifyingWeekdays) = 2
    /\ \E w \in QualifyingWeekdays :
           WeekdayRate(w) < WeekdayRate(response.best_day_of_week)
    /\ \E w \in (1..7) \ QualifyingWeekdays :
           /\ Observations(w) # {}
           /\ \A r \in Observations(w) : r.completed
    /\ \E r \in Observations(response.best_day_of_week) : ~r.completed


\* The logged observations of habit 1 on the weekday m of the numbering
\* 1 = Monday .. 7 = Sunday.
ObservationsOn(m) ==
    {r \in habit_logs :
        r.habit_id = 1 /\ (IF r.log_date % 7 = 0 THEN 7 ELSE r.log_date % 7) = m}

\* The completion rate of the weekday m to 2 decimals, in hundredths.
RateOn(m) ==
    LET done == Cardinality({r \in ObservationsOn(m) : r.completed})
        all == Cardinality(ObservationsOn(m))
    IN  (20000 * done + all) \div (2 * all)

\* The weekdays, 1 = Monday .. 7 = Sunday, with 5 or more observations whose
\* rate no other such weekday exceeds.
TopWeekdays ==
    LET qualifying == {m \in 1..7 : Cardinality(ObservationsOn(m)) >= 5}
    IN  {m \in qualifying : \A k \in qualifying : RateOn(k) <= RateOn(m)}

\* C21: when several qualifying weekdays have the same highest completion
\* rate, the result is the lowest-numbered of them in the numbering
\* 1 = Monday .. 7 = Sunday.
C21_TieBreakLowestWeekday ==
    (response.kind = "bestDay" /\ Cardinality(TopWeekdays) >= 2) =>
        /\ response.best_day_of_week \in TopWeekdays
        /\ \A m \in TopWeekdays : response.best_day_of_week <= m


\* The entries of a list, newest first.
NewestFirst(list) == OrderByDateDesc({list[i] : i \in 1..Len(list)})

\* C22: for entries with unique dates, calculateStreaks returns the same
\* currentStreak, longestStreak and lastCompletedDate for every ordering of
\* the input list (the result for a list is the result for its entries in
\* date order); so does the streak part of getHabitStats.
C22_OrderIndependent ==
    /\ response.kind = "streaks" =>
           response.streaks = calculateStreaks(NewestFirst(pending.logs))
    /\ response.kind = "logModel" =>
           response.streaks = getHabitStatsStreaks(NewestFirst(pending.logs))

\* A list of three consecutive completed days given oldest, newest, middle.
C22_Witness ==
    /\ response.kind = "streaks"
    /\ Len(pending.logs) = 3
    /\ pending.logs[1].log_date = 1
    /\ pending.logs[2].log_date = 3
    /\ pending.logs[3].log_date = 2
    /\ response.streaks.currentStreak = 3

\* C23: calculateStreaks, calculateConsistencyScore and calculateExpectedDays
\* leave the caller's log list with the same entries in the same order.
C23_InputUnchanged == [][pending' = pending]_vars

\* A call has returned for a list that is not in date order.
C23_Witness ==
    /\ response.kind \in {"streaks", "score"}
    /\ Len(pending.logs) >= 3
    /\ pending.logs # NewestFirst(pending.logs)
    /\ pending.logs # Reverse(NewestFirst(pending.logs))


\* C24: two calls of calculateHabitStats for the same habit with the same
\* stored logs, the same schedule and the same current date return equal
\* HabitStats in every field.
C24_Deterministic ==
    [][(/\ response.kind = "stats" /\ response'.kind = "stats"
        /\ response.stats.habit_id = response'.stats.habit_id
        /\ habits' = habits /\ habit_logs' = habit_logs)
          => response'.stats = response.stats]_vars


\* C25: after any interleaving of the log-recording operations the store
\* holds at most one entry per (habit, date), and an operation that records
\* a date again leaves its completed flag in the existing entry.
C25_OneEntryPerDate ==
    /\ \A r, q \in habit_logs :
           (r.habit_id = q.habit_id /\ r.log_date = q.log_date) => r = q
    /\ response.kind \in {"recorded", "failed"} => response.row \in habit_logs


\* C26: in every result of calculateStreaks, currentStreak <= longestStreak
\* <= number of completed entries.
C26_StreakOrdering ==
    response.kind = "streaks" =>
        /\ response.streaks.currentStreak <= response.streaks.longestStreak
        /\ response.streaks.longestStreak <= CountCompleted(pending.logs)


\* C27: for every log list with unique dates, StreakService.calculateStreaks
\* and HabitLogModel.getHabitStats return the same current streak, the same
\* longest streak and the same last-completed date.
C27_ImplementationsAgree ==
    /\ response.kind = "streaks" =>
           response.streaks = getHabitStatsStreaks(pending.logs)
    /\ response.kind = "logModel" =>
           response.streaks = calculateStreaks(pending.logs)



\* C28: for every currentStreak >= 0 and completionRate in [0, 100] a
\* successful predictNextMilestone returns daysToReach >= nextMilestone -
\* currentStreak >= 1, also when the sentinel 99 is returned, and
\* confidence = min(round(completionRate), 95), which lies in [0, 95].
C28_EstimateAndConfidence ==
    MilestoneAnswered =>
        LET missing == response.prediction.nextMilestone - pending.current_streak
        IN  /\ missing >= 1
            /\ response.prediction.daysToReach >= missing
            /\ response.prediction.confidence =
                   Min(RoundHalfUp(pending.completion_rate, 100), 95)
            /\ response.prediction.confidence \in 0..95



BulkFails(i) ==
    \/ pending.date = MalformedDate
    \/ pending.date > Today
    \/ pending.logs[i].habitId = NotOwned

\* C30: bulkLogUpdate returns exactly one result per input log, in input
\* order; an entry whose logCompletion fails is reported with success = false
\* and an error message, and it neither prevents the other entries from being
\* recorded nor makes bulkLogUpdate itself reject.
C30_BulkIsolatesFailures ==
    /\ response.kind # "rejected"
    /\ response.kind = "bulk" =>
           LET logs == pending.logs
               results == response.results
           IN  /\ Len(results) = Len(logs)
               /\ \A i \in DOMAIN logs :
                      /\ results[i].habitId = logs[i].habitId
                      /\ BulkFails(i) =>
                             /\ ~results[i].success
                             /\ results[i].error \in
                                    {"Invalid date format. Use YYYY-MM-DD",
                                     "Cannot log habits for future dates",
                                     "Habit not found"}
                      /\ ~BulkFails(i) =>
                             /\ results[i].success
                             /\ \E r \in RowsFor(logs[i].habitId, pending.date) :
                                    \E j \in DOMAIN logs :
                                        /\ logs[j].habitId = r.habit_id
                                        /\ logs[j].completed = r.completed

\* A habit that is not the user's comes first; the two entries after it are
\* recorded all the same.
C30_Witness ==
    /\ response.kind = "bulk"
    /\ pending.date = Today
    /\ pending.logs = <<[habitId |-> NotOwned, completed |-> TRUE],
                        [habitId |-> 1, completed |-> TRUE],
                        [habitId |-> 2, completed |-> FALSE]>>
    /\ response.results = <<[habitId |-> NotOwned, success |-> FALSE,
                             error |-> "Habit not found"],
                            [habitId |-> 1, success |-> TRUE],
                            [habitId |-> 2, success |-> TRUE]>>
    /\ habit_logs = {LogRow(1, Today, TRUE), LogRow(2, Today, FALSE)}

====
